---------------------------- MODULE Spec2Model ----------------------------
(***************************************************************************)
(* A model of libhyx: the type-level list library (type_sequence.h), the   *)
(* bracket scanner and scan engine (header_string.h) and the legacy        *)
(* logger (logger.h, logger.cpp).                                          *)
(*                                                                         *)
(* Text is a sequence of one-character strings.  Positions in a template   *)
(* are 0-based offsets, as the iterators of the source are: offset p       *)
(* designates fmt[p + 1], and offset Len(fmt) is the end iterator.         *)
(***************************************************************************)
EXTENDS Integers, Sequences, FiniteSets, TLC

VARIABLES
    \* ---- type_sequence.h: one evaluation of a type-level operation
    seqIn,      \* the type sequence the operation is applied to
    seqOp,      \* the operation applied ("none" before it is)
    seqOut,     \* its result
    seqPos,     \* the position it is given (split)
    seqOut2,    \* its second result (split: the second half)
    seqArg,     \* the type sequence it is given to insert (insert_range)
    seqCount,   \* the number of copies it is given to insert (insert_count)
    seqErr,     \* TRUE when the instantiation is ill-formed: there is no result
    \* ---- header_string.h: one scan of one template
    fmt,        \* the template given to basic_scanner
    sentinel,   \* the character stored at the end iterator (outside the span)
    begin_,     \* scan_context::begin_
    subend_,    \* scan_context::subend_
    end_,       \* scan_context::end_
    scanPc,     \* where scan() is
    cur,        \* the placeholder being parsed (locals of scan / parse_member)
    hooks,      \* the on_event / consume_spec calls made so far, in order
    err,        \* the format error thrown, or "none"
    \* ---- logger.h, logger.cpp: the legacy logger and the threads using it
    prefix,     \* static std::string logger::prefix
    wrapped,    \* the stream buffer the static logger::out_stream wraps
    failbit,    \* whether failbit is set in out_stream's state
    pending,    \* the text held by out_stream's syncbuf, not yet emitted
    fstream,    \* per logger instance: the file its fstream has open, or "closed"
    constructed,\* the logger instances that exist
    dirs,       \* the directories that exist in the file system
    delivered,  \* per destination: the text that has reached it
    pc,         \* per thread: where it is in a log call
    op,         \* per thread: the log call it is in
    guard,      \* per thread: its live log_function_guard, if any
    ncalls,     \* the number of log calls started
    fault       \* "none", or the undefined operation the program ran into

seqVars  == <<seqIn, seqOp, seqOut, seqPos, seqOut2, seqArg, seqCount, seqErr>>
scanVars == <<fmt, sentinel, begin_, subend_, end_, scanPc, cur, hooks, err>>
sinkVars == <<wrapped, failbit, pending, fstream, constructed, dirs, delivered>>
callVars == <<pc, op, guard, ncalls>>
logVars  == <<prefix, sinkVars, callVars, fault>>
vars     == <<seqVars, scanVars, logVars>>

(***************************************************************************)
(* Bounds of the model.                                                    *)
(***************************************************************************)
MaxSeqLen == 4      \* longest type sequence drawn
PastEnd == 2        \* positions tried behind the end of a type sequence
MaxCount == 2       \* most copies of one type inserted
MaxFmtLen == 4      \* longest free-form template drawn
MaxCalls == 2       \* log calls (level calls, guard Start and End records) started
MaxPrefixLen == 8   \* longest prefix built when the prefix stack is explored alone
MaxLogPrefixLen == 3 \* longest prefix built while logging

Min(a, b) == IF a < b THEN a ELSE b

\* every sequence over S of length at most n
SeqsUpTo(S, n) == UNION {[1..k -> S] : k \in 0..n}

(***************************************************************************)
(*                        type_sequence.h                                  *)
(***************************************************************************)
Types == {"int", "bool", "short"}

\* the type sequences given to insert_range
Inserted == {<<>>, <<"int">>, <<"bool", "int">>}

\* meta::contains: std::disjunction<std::is_same<IType, Ts>...>
contains(IType, Ts) == \E i \in 1..Len(Ts) : Ts[i] = IType

\* detail::_unique_impl<Contains, type_sequence<Ts...>, type_sequence<Us...>>
RECURSIVE _unique_impl(_, _, _)
_unique_impl(Contains, Ts, Us) ==
    IF Len(Us) >= 2
    THEN IF ~Contains
         THEN _unique_impl(contains(Us[2], <<Us[1]>> \o Ts), <<Us[1]>> \o Ts, Tail(Us))
         ELSE _unique_impl(contains(Us[2], Ts), Ts, Tail(Us))
    ELSE IF Len(Us) = 1
         THEN IF ~Contains THEN Ts \o <<Us[1]>> ELSE Ts
         ELSE <<>>

\* meta::unique_t
unique_t(S) == _unique_impl(FALSE, <<>>, S)

\* _split_impl moving each element in front of the first half
RECURSIVE _split_impl_prepend(_, _, _)
_split_impl_prepend(Pos, Ts, Us) ==
    IF Pos = 0
    THEN [ok |-> TRUE, first |-> Ts, second |-> Us]
    ELSE IF Us # <<>>
         THEN _split_impl_prepend(Pos - 1, <<Head(Us)>> \o Ts, Tail(Us))
         ELSE [ok |-> FALSE, first |-> <<>>, second |-> <<>>]

\* detail::_split_impl<Pos, type_sequence<Ts...>, type_sequence<Us...>>: first and
\* second; no specialisation fits Pos > 0 with nothing left to move
RECURSIVE _split_impl(_, _, _)
_split_impl(Pos, Ts, Us) ==
    IF Pos = 0
    THEN [ok |-> TRUE, first |-> Ts, second |-> Us]
    ELSE IF Us # <<>>
         THEN _split_impl(Pos - 1, Ts \o <<Head(Us)>>, Tail(Us))
         ELSE [ok |-> FALSE, first |-> <<>>, second |-> <<>>]

\* meta::split<Pos, S>: the constrained specialisation for Pos == sizeof...(Ts)
\* goes to the end without the linear search
split(Pos, S) ==
    IF Pos = Len(S) THEN _split_impl(0, S, <<>>) ELSE _split_impl(Pos, <<>>, S)
split_first_t(Pos, S)  == split(Pos, S).first
split_second_t(Pos, S) == split(Pos, S).second

\* meta::size and meta::is_empty
size(Ts) == Len(Ts)
is_empty(Ts) == Len(Ts) = 0

\* the outcome of an instantiation: a type, or none when it is ill-formed
IllFormed == [ok |-> FALSE, type |-> <<>>]
WellFormed(T) == [ok |-> TRUE, type |-> T]

\* _get_impl treating a position behind the last type as the last type
RECURSIVE _get_impl_clamped(_, _)
_get_impl_clamped(Pos, S) ==
    IF S = <<>>
    THEN IllFormed
    ELSE IF Pos = 0 \/ Len(S) = 1
         THEN WellFormed(Head(S))
         ELSE _get_impl_clamped(Pos - 1, Tail(S))

\* detail::_get_impl<Pos, type_sequence<T, Ts...>>: both specialisations need a
\* first type T, so the primary template, declared only, is what is left for
\* the empty sequence
RECURSIVE _get_impl(_, _)
_get_impl(Pos, S) ==
    IF S = <<>>
    THEN IllFormed
    ELSE IF Pos = 0
         THEN WellFormed(Head(S))
         ELSE _get_impl(Pos - 1, Tail(S))

\* meta::get<Pos, TypeSequence>, requires(!is_empty) from C++20 on
get(Pos, TypeSequence) ==
    IF is_empty(TypeSequence) THEN IllFormed ELSE _get_impl(Pos, TypeSequence)

\* meta::front_t and meta::back_t.  On the empty sequence size - 1 wraps to the
\* largest std::size_t; no recursion step is taken from it, the sequence
\* having no first type, so the position does not matter there.
front_t(TypeSequence) == get(0, TypeSequence)
back_t(TypeSequence)  == get(size(TypeSequence) - 1, TypeSequence)

\* meta::pop_front_t: the only definition is for type_sequence<T, Ts...>
pop_front_t(TypeSequence) ==
    IF TypeSequence = <<>> THEN IllFormed ELSE WellFormed(Tail(TypeSequence))

\* meta::cat of two or more type sequences
RECURSIVE cat(_)
cat(TypeSequences) ==
    IF Len(TypeSequences) = 2
    THEN TypeSequences[1] \o TypeSequences[2]
    ELSE cat(<<TypeSequences[1] \o TypeSequences[2]>> \o SubSeq(TypeSequences, 3, Len(TypeSequences)))
cat_t(TypeSequences) == cat(TypeSequences)

\* detail::_homogeneous_type_sequence_impl<Count, IType, Ts...>
RECURSIVE _homogeneous_type_sequence_impl(_, _, _)
_homogeneous_type_sequence_impl(Count, IType, Ts) ==
    IF Count = 0
    THEN Ts
    ELSE _homogeneous_type_sequence_impl(Count - 1, IType, <<IType>> \o Ts)

\* meta::make_homogeneous_type_sequence<Count, IType>
make_homogeneous_type_sequence(Count, IType) ==
    _homogeneous_type_sequence_impl(Count, IType, <<>>)

\* insert_range_t putting the inserted sequence behind the second half
insert_range_t_behind(Pos, ITypeSequence, TypeSequence) ==
    IF split(Pos, TypeSequence).ok
    THEN WellFormed(cat_t(<<split_first_t(Pos, TypeSequence),
                            split_second_t(Pos, TypeSequence), ITypeSequence>>))
    ELSE IllFormed

\* meta::insert_range_t<Pos, ITypeSequence, TypeSequence>: the cat of the first
\* half, the inserted sequence and the second half; ill-formed when the split is
insert_range_t(Pos, ITypeSequence, TypeSequence) ==
    IF split(Pos, TypeSequence).ok
    THEN WellFormed(cat_t(<<split_first_t(Pos, TypeSequence), ITypeSequence,
                            split_second_t(Pos, TypeSequence)>>))
    ELSE IllFormed

\* meta::insert_t<Pos, IType, TypeSequence>
insert_t(Pos, IType, TypeSequence) == insert_range_t(Pos, <<IType>>, TypeSequence)

\* meta::insert_count_t<Pos, IType, Count, TypeSequence>
insert_count_t(Pos, IType, Count, TypeSequence) ==
    insert_range_t(Pos, make_homogeneous_type_sequence(Count, IType), TypeSequence)

\* meta::push_front_t and meta::prepend_range_t
push_front_t(T, TypeSequence) == insert_t(0, T, TypeSequence)
prepend_range_t(ITypeSequence, TypeSequence) == insert_range_t(0, ITypeSequence, TypeSequence)

\* meta::push_back_t and meta::append_range_t
push_back_t(T, TypeSequence) == insert_t(size(TypeSequence), T, TypeSequence)
append_range_t(ITypeSequence, TypeSequence) ==
    insert_range_t(size(TypeSequence), ITypeSequence, TypeSequence)

\* _reverse_impl moving each element behind the accumulated sequence
RECURSIVE _reverse_impl_append(_, _)
_reverse_impl_append(Ts, Us) ==
    IF Us = <<>> THEN Ts ELSE _reverse_impl_append(Ts \o <<Head(Us)>>, Tail(Us))

\* detail::_reverse_impl<type_sequence<Ts...>, type_sequence<Us...>>
RECURSIVE _reverse_impl(_, _)
_reverse_impl(Ts, Us) ==
    IF Us = <<>> THEN Ts ELSE _reverse_impl(<<Head(Us)>> \o Ts, Tail(Us))
reverse_t(S) == _reverse_impl(<<>>, S)


(***************************************************************************)
(*                          header_string.h                                *)
(***************************************************************************)
\* what(): the messages of the format errors thrown
UnmatchedRight  == "format error: unmatched ']' in format string"
UnmatchedLeft   == "format error: unmatched '[' in format string"
UnknownNs       == "format error: unknown namespace spec"
UnknownMember   == "format error: unknown namespace member spec"
MissingSemi     == "format error: missing semi-colon in namespace spec"
\* string_view::front() on an empty view has no defined result: the build either
\* reads the character behind the view or stops on the library's assertion
FrontOfEmpty    == "undefined: front() of an empty string_view"

\* a global namespace without a label, so that "[lvl;]" would name a member
global_namespace_unlabelled == <<>>

\* detail::global_namespace, clock_namespace, source_namespace
global_namespace == <<":", ":">>
clock_namespace  == <<"c", "l", ":", ":">>
source_namespace == <<"s", "l", ":", ":">>

\* detail::lvl, detail::cl::*, detail::sl::* : a label and its spec_id
Member(label, id) == [label |-> label, id |-> id]
GlobalSpecs == [ns |-> global_namespace, members |-> <<Member(<<"l", "v", "l">>, "lvl")>>]
ClockSpecs ==
    [ns |-> clock_namespace,
     members |-> <<Member(<<"s", "y", "s">>, "sys"), Member(<<"u", "t", "c">>, "utc"),
                   Member(<<"t", "a", "i">>, "tai"), Member(<<"g", "p", "s">>, "gps"),
                   Member(<<"f", "i", "l", "e">>, "file")>>]
\* the members of sl:: with file_name given the id of function_name
SourceSpecs_file_name_id ==
    [ns |-> source_namespace,
     members |-> <<Member(<<"l", "i", "n", "e">>, "line"),
                   Member(<<"c", "o", "l", "u", "m", "n">>, "column"),
                   Member(<<"f", "i", "l", "e", "_", "n", "a", "m", "e">>, "function_name"),
                   Member(<<"f", "u", "n", "c", "t", "i", "o", "n", "_", "n", "a", "m", "e">>, "function_name")>>]
SourceSpecs ==
    [ns |-> source_namespace,
     members |-> <<Member(<<"l", "i", "n", "e">>, "line"),
                   Member(<<"c", "o", "l", "u", "m", "n">>, "column"),
                   Member(<<"f", "i", "l", "e", "_", "n", "a", "m", "e">>, "file_name"),
                   Member(<<"f", "u", "n", "c", "t", "i", "o", "n", "_", "n", "a", "m", "e">>, "function_name")>>]
AvailableSpecs == <<GlobalSpecs, ClockSpecs, SourceSpecs>>

\* detail::spec_id
spec_id == {"lvl", "sys", "utc", "tai", "gps", "file", "line", "column", "file_name", "function_name"}

\* std::string_view::starts_with and remove_prefix
starts_with(s, p) == Len(s) >= Len(p) /\ SubSeq(s, 1, Len(p)) = p
remove_prefix(s, n) == SubSeq(s, n + 1, Len(s))

\* *it for an iterator at offset p of template s whose end iterator holds z
Deref(s, z, p) == IF p < Len(s) THEN s[p + 1] ELSE z

\* std::ranges::next(it, 1, bound) and std::ranges::advance(it, 1, bound)
next(p, bound) == IF p < bound THEN p + 1 ELSE bound

\* find_next_valid_bracket(start, end) over template s
RECURSIVE find_next_valid_bracket(_, _, _, _)
find_next_valid_bracket(s, z, start, end) ==
    IF start = end THEN end
    ELSE IF Deref(s, z, start) = "["
         THEN IF Deref(s, z, next(start, end)) # "["
              THEN start
              ELSE find_next_valid_bracket(s, z, next(next(start, end), end), end)
         ELSE IF Deref(s, z, start) = "]"
              THEN LET nxt == next(start, end) IN
                   IF Deref(s, z, nxt) # "]"
                   THEN start
                   ELSE IF Deref(s, z, next(nxt, end)) = "]"
                        THEN start
                        ELSE find_next_valid_bracket(s, z, next(next(start, end), end), end)
              ELSE find_next_valid_bracket(s, z, next(start, end), end)

\* the offsets find_next_valid_bracket(start, end) dereferences: *start,
\* *next(start, 1, end) and *next(next, 1, end), as the search meets them
RECURSIVE find_next_valid_bracket_reads(_, _, _, _)
find_next_valid_bracket_reads(s, z, start, end) ==
    IF start = end THEN {}
    ELSE IF Deref(s, z, start) = "["
         THEN {start, next(start, end)} \cup
              (IF Deref(s, z, next(start, end)) # "["
               THEN {}
               ELSE find_next_valid_bracket_reads(s, z, next(next(start, end), end), end))
         ELSE IF Deref(s, z, start) = "]"
              THEN LET nxt == next(start, end) IN
                   {start, nxt} \cup
                   (IF Deref(s, z, nxt) # "]"
                    THEN {}
                    ELSE {next(nxt, end)} \cup
                         (IF Deref(s, z, next(nxt, end)) = "]"
                          THEN {}
                          ELSE find_next_valid_bracket_reads(s, z, next(next(start, end), end), end)))
              ELSE {start} \cup find_next_valid_bracket_reads(s, z, next(start, end), end)

\* parse_member reporting an exhausted member list with the error of an
\* exhausted namespace list
RECURSIVE parse_member_namespace_error(_, _, _)
parse_member_namespace_error(TypeSequence, f, off) ==
    IF TypeSequence = <<>>
    THEN [r |-> "throw", what |-> UnknownNs]
    ELSE LET mb == Head(TypeSequence) IN
         IF starts_with(f, mb.label)
         THEN LET rest == remove_prefix(f, Len(mb.label)) IN
              IF rest = <<>>
              THEN [r |-> "front_of_empty", what |-> MissingSemi]
              ELSE IF Head(rest) # ";"
                   THEN [r |-> "throw", what |-> MissingSemi]
                   ELSE [r |-> "member", id |-> mb.id, from |-> off + Len(mb.label) + 1]
         ELSE parse_member_namespace_error(Tail(TypeSequence), f, off)

\* basic_scanner::parse_member<TypeSequence>(fmt): f is the text left of the
\* placeholder body and off its offset in the template.  The result names the
\* error thrown, or the member matched and the offset behind its ';'.
RECURSIVE parse_member(_, _, _)
parse_member(TypeSequence, f, off) ==
    IF TypeSequence = <<>>
    THEN [r |-> "throw", what |-> UnknownMember]
    ELSE LET mb == Head(TypeSequence) IN
         IF starts_with(f, mb.label)
         THEN LET rest == remove_prefix(f, Len(mb.label)) IN
              IF rest = <<>>
              THEN [r |-> "front_of_empty", what |-> MissingSemi]
              ELSE IF Head(rest) # ";"
                   THEN [r |-> "throw", what |-> MissingSemi]
                   ELSE [r |-> "member", id |-> mb.id, from |-> off + Len(mb.label) + 1]
         ELSE parse_member(Tail(TypeSequence), f, off)

\* parse_namespace reporting an exhausted namespace list with the error of an
\* exhausted member list
RECURSIVE parse_namespace_member_error(_, _, _)
parse_namespace_member_error(TypeSequence, f, off) ==
    IF TypeSequence = <<>>
    THEN [r |-> "throw", what |-> UnknownMember]
    ELSE LET Specs == Head(TypeSequence) IN
         IF starts_with(f, Specs.ns)
         THEN parse_member(Specs.members, remove_prefix(f, Len(Specs.ns)), off + Len(Specs.ns))
         ELSE parse_namespace_member_error(Tail(TypeSequence), f, off)

\* basic_scanner::parse_namespace<TypeSequence>(fmt)
RECURSIVE parse_namespace(_, _, _)
parse_namespace(TypeSequence, f, off) ==
    IF TypeSequence = <<>>
    THEN [r |-> "throw", what |-> UnknownNs]
    ELSE LET Specs == Head(TypeSequence) IN
         IF starts_with(f, Specs.ns)
         THEN parse_member(Specs.members, remove_prefix(f, Len(Specs.ns)), off + Len(Specs.ns))
         ELSE parse_namespace(Tail(TypeSequence), f, off)

\* the text between offsets a (included) and b (excluded) of template s
Slice(s, a, b) == SubSeq(s, a + 1, b)

\* the two hooks of basic_scanner, recorded: on_event(it) and consume_spec(id)
OnEvent(it)     == [k |-> "lit", from |-> begin_, to |-> it]
ConsumeSpec(id) == [k |-> "spec", id |-> id, from |-> begin_, to |-> subend_]

NoCur == [id |-> "none", from |-> 0, to |-> 0]

SeqIdle ==
    /\ seqIn = <<>> /\ seqOp = "idle" /\ seqOut = <<>> /\ seqPos = 0 /\ seqOut2 = <<>>
    /\ seqArg = <<>> /\ seqCount = 0 /\ seqErr = FALSE

InitSeq ==
    /\ seqIn \in SeqsUpTo(Types, MaxSeqLen)
    /\ seqOp = "none"
    /\ seqOut = <<>>
    /\ seqPos = 0
    /\ seqOut2 = <<>>
    /\ seqArg = <<>>
    /\ seqCount = 0
    /\ seqErr = FALSE

ApplyUnique ==
    /\ seqOp = "none"
    /\ seqOp' = "unique"
    /\ seqOut' = unique_t(seqIn)
    /\ UNCHANGED <<seqIn, seqPos, seqOut2, seqArg, seqCount, seqErr, scanVars, logVars>>

\* split_first_t<Pos, S> and split_second_t<Pos, S>, for each Pos in [0, size]
\* and for the positions behind it
ApplySplit ==
    /\ seqOp = "none"
    /\ \E Pos \in 0..(Len(seqIn) + PastEnd) :
          /\ seqPos' = Pos
          /\ seqOut' = split_first_t(Pos, seqIn)
          /\ seqOut2' = split_second_t(Pos, seqIn)
          /\ seqErr' = ~split(Pos, seqIn).ok
    /\ seqOp' = "split"
    /\ UNCHANGED <<seqIn, seqArg, seqCount, scanVars, logVars>>

\* cat_t of the two halves of a split
ApplyCat ==
    /\ seqOp = "split"
    /\ ~seqErr
    /\ seqOp' = "cat"
    /\ seqOut' = cat_t(<<seqOut, seqOut2>>)
    /\ UNCHANGED <<seqIn, seqPos, seqOut2, seqArg, seqCount, seqErr, scanVars, logVars>>

\* reverse_t<S>
ApplyReverse ==
    /\ seqOp = "none"
    /\ seqOp' = "reverse"
    /\ seqOut' = reverse_t(seqIn)
    /\ UNCHANGED <<seqIn, seqPos, seqOut2, seqArg, seqCount, seqErr, scanVars, logVars>>

\* reverse_t<reverse_t<S>>
ApplyReverseAgain ==
    /\ seqOp = "reverse"
    /\ seqOp' = "reverse twice"
    /\ seqOut' = reverse_t(seqOut)
    /\ UNCHANGED <<seqIn, seqPos, seqOut2, seqArg, seqCount, seqErr, scanVars, logVars>>

\* get<Pos, S>
ApplyGet ==
    /\ seqOp = "none"
    /\ \E Pos \in 0..(Len(seqIn) + PastEnd) :
          /\ seqPos' = Pos
          /\ seqOut' = get(Pos, seqIn).type
          /\ seqErr' = ~get(Pos, seqIn).ok
    /\ seqOp' = "get"
    /\ UNCHANGED <<seqIn, seqOut2, seqArg, seqCount, scanVars, logVars>>

\* front_t<S>
ApplyFront ==
    /\ seqOp = "none"
    /\ seqOp' = "front"
    /\ seqOut' = front_t(seqIn).type
    /\ seqErr' = ~front_t(seqIn).ok
    /\ UNCHANGED <<seqIn, seqPos, seqOut2, seqArg, seqCount, scanVars, logVars>>

\* back_t<S>
ApplyBack ==
    /\ seqOp = "none"
    /\ seqOp' = "back"
    /\ seqOut' = back_t(seqIn).type
    /\ seqErr' = ~back_t(seqIn).ok
    /\ UNCHANGED <<seqIn, seqPos, seqOut2, seqArg, seqCount, scanVars, logVars>>

\* pop_front_t<S>
ApplyPopFront ==
    /\ seqOp = "none"
    /\ seqOp' = "pop_front"
    /\ seqOut' = pop_front_t(seqIn).type
    /\ seqErr' = ~pop_front_t(seqIn).ok
    /\ UNCHANGED <<seqIn, seqPos, seqOut2, seqArg, seqCount, scanVars, logVars>>

\* insert_range_t<Pos, I, S>
ApplyInsert ==
    /\ seqOp = "none"
    /\ \E Pos \in 0..(Len(seqIn) + PastEnd), I \in Inserted :
          /\ seqPos' = Pos
          /\ seqArg' = I
          /\ seqOut' = insert_range_t(Pos, I, seqIn).type
          /\ seqErr' = ~insert_range_t(Pos, I, seqIn).ok
    /\ seqOp' = "insert"
    /\ UNCHANGED <<seqIn, seqOut2, seqCount, scanVars, logVars>>

\* insert_t<Pos, IType, S>
ApplyInsertOne ==
    /\ seqOp = "none"
    /\ \E Pos \in 0..(Len(seqIn) + PastEnd), IType \in Types :
          /\ seqPos' = Pos
          /\ seqArg' = <<IType>>
          /\ seqOut' = insert_t(Pos, IType, seqIn).type
          /\ seqErr' = ~insert_t(Pos, IType, seqIn).ok
    /\ seqOp' = "insert one"
    /\ UNCHANGED <<seqIn, seqOut2, seqCount, scanVars, logVars>>

\* insert_count_t<Pos, IType, Count, S>
ApplyInsertCount ==
    /\ seqOp = "none"
    /\ \E Pos \in 0..(Len(seqIn) + PastEnd), IType \in Types, Count \in 0..MaxCount :
          /\ seqPos' = Pos
          /\ seqArg' = <<IType>>
          /\ seqCount' = Count
          /\ seqOut' = insert_count_t(Pos, IType, Count, seqIn).type
          /\ seqErr' = ~insert_count_t(Pos, IType, Count, seqIn).ok
    /\ seqOp' = "insert_count"
    /\ UNCHANGED <<seqIn, seqOut2, scanVars, logVars>>

\* push_front_t<T, S>
ApplyPushFront ==
    /\ seqOp = "none"
    /\ \E T \in Types :
          /\ seqArg' = <<T>>
          /\ seqOut' = push_front_t(T, seqIn).type
          /\ seqErr' = ~push_front_t(T, seqIn).ok
    /\ seqOp' = "push_front"
    /\ UNCHANGED <<seqIn, seqPos, seqOut2, seqCount, scanVars, logVars>>

\* prepend_range_t<I, S>
ApplyPrependRange ==
    /\ seqOp = "none"
    /\ \E I \in Inserted :
          /\ seqArg' = I
          /\ seqOut' = prepend_range_t(I, seqIn).type
          /\ seqErr' = ~prepend_range_t(I, seqIn).ok
    /\ seqOp' = "prepend_range"
    /\ UNCHANGED <<seqIn, seqPos, seqOut2, seqCount, scanVars, logVars>>

\* push_back_t<T, S>
ApplyPushBack ==
    /\ seqOp = "none"
    /\ \E T \in Types :
          /\ seqArg' = <<T>>
          /\ seqOut' = push_back_t(T, seqIn).type
          /\ seqErr' = ~push_back_t(T, seqIn).ok
    /\ seqOp' = "push_back"
    /\ UNCHANGED <<seqIn, seqPos, seqOut2, seqCount, scanVars, logVars>>

\* append_range_t<I, S>
ApplyAppendRange ==
    /\ seqOp = "none"
    /\ \E I \in Inserted :
          /\ seqArg' = I
          /\ seqOut' = append_range_t(I, seqIn).type
          /\ seqErr' = ~append_range_t(I, seqIn).ok
    /\ seqOp' = "append_range"
    /\ UNCHANGED <<seqIn, seqPos, seqOut2, seqCount, scanVars, logVars>>

NextSeq ==
    \/ ApplyUnique
    \/ ApplySplit
    \/ ApplyCat
    \/ ApplyReverse
    \/ ApplyReverseAgain
    \/ ApplyGet
    \/ ApplyFront
    \/ ApplyBack
    \/ ApplyPopFront
    \/ ApplyInsert
    \/ ApplyInsertOne
    \/ ApplyInsertCount
    \/ ApplyPushFront
    \/ ApplyPrependRange
    \/ ApplyPushBack
    \/ ApplyAppendRange


(***************************************************************************)
(* The templates scanned: free-form text over brackets and a letter, and   *)
(* text built around one or two placeholders.                              *)
(***************************************************************************)
Alphabet  == {"[", "]", "a", ";"}
Sentinels == {"NUL", "[", "]"}

Lits        == {<<>>, <<"a">>}
NsTexts     == {global_namespace, clock_namespace, source_namespace, <<"b", "a", "d", ":", ":">>, <<>>}
MemberLabels(Specs) == {Specs.members[i].label : i \in 1..Len(Specs.members)}
TabulatedMembers == MemberLabels(GlobalSpecs) \cup MemberLabels(ClockSpecs) \cup MemberLabels(SourceSpecs)
MemberTexts == TabulatedMembers \cup {<<"n", "o", "p", "e">>, <<"u", "t">>, <<"u", "t", "c", "x">>, <<"l", "v", "l", "x">>, <<>>}
Seps        == {<<";">>, <<>>}
SpecTexts   == {<<>>, <<"%", "Y">>}

Placeholder(ns, m, sep, sp) == <<"[">> \o ns \o m \o sep \o sp \o <<"]">>
Placeholders ==
    {Placeholder(ns, m, sep, sp) : ns \in NsTexts, m \in MemberTexts, sep \in Seps, sp \in SpecTexts}
GoodPlaceholders ==
    {Placeholder(global_namespace, <<"l", "v", "l">>, <<";">>, <<>>),
     Placeholder(clock_namespace, <<"u", "t", "c">>, <<";">>, <<"%", "Y">>)}

\* the example template of the mini-language, and the same with every
\* placeholder written in full
ExampleTemplate == <<"[", "c", "l", ":", ":", "u", "t", "c", ";", "%", "F", "T", "%", "T", "Z", "]", "[", "l", "v", "l", "]", "[", "s", "l", ":", ":", "l", "i", "n", "e", "]">>
ExampleTemplateFull == <<"[", "c", "l", ":", ":", "u", "t", "c", ";", "%", "F", "T", "%", "T", "Z", "]", "[", ":", ":", "l", "v", "l", ";", "]", "[", "s", "l", ":", ":", "l", "i", "n", "e", ";", "]">>

\* the example a[cl::utc;%Y]b of a placeholder between two literals
ExampleLiteralTemplate == <<"a", "[", "c", "l", ":", ":", "u", "t", "c", ";", "%", "Y", "]", "b">>

Templates ==
    SeqsUpTo(Alphabet, MaxFmtLen)
    \cup {pre \o ph \o post : pre \in Lits, ph \in Placeholders, post \in Lits}
    \cup {pre \o p1 \o mid \o p2 : pre \in Lits, p1 \in GoodPlaceholders, mid \in Lits, p2 \in GoodPlaceholders}
    \cup {ExampleTemplate, ExampleTemplateFull, ExampleLiteralTemplate}

ScanIdle ==
    /\ fmt = <<>> /\ sentinel = "NUL"
    /\ begin_ = 0 /\ subend_ = 0 /\ end_ = 0
    /\ scanPc = "idle" /\ cur = NoCur /\ hooks = <<>> /\ err = "none"

\* basic_scanner(str) : ctx_(str), i.e. scan_context(fmt)
InitScan ==
    /\ fmt \in Templates
    /\ sentinel \in Sentinels
    /\ begin_ = 0
    /\ subend_ = Len(fmt)
    /\ end_ = subend_
    /\ scanPc = "scan"
    /\ cur = NoCur
    /\ hooks = <<>>
    /\ err = "none"

\* locals of one pass of the loop of scan()
Lb  == find_next_valid_bracket(fmt, sentinel, begin_, end_)
Lb1 == next(Lb, end_)
Rb  == find_next_valid_bracket(fmt, sentinel, Lb1, end_)

\* the offsets one pass of the loop of scan() dereferences, parse_namespace
\* left out: those of the search for lb, *lb, those of the search for rb, *rb
ScanReads ==
    find_next_valid_bracket_reads(fmt, sentinel, begin_, end_) \cup
    (IF Lb = end_ THEN {}
     ELSE {Lb} \cup
          (IF Deref(fmt, sentinel, Lb) = "]" THEN {}
           ELSE find_next_valid_bracket_reads(fmt, sentinel, Lb1, end_) \cup {Rb}))

\* scan() calling on_event(end()) when the loop condition fails
ScanEnd_trailing_event ==
    /\ scanPc = "scan"
    /\ begin_ = end_
    /\ hooks' = Append(hooks, OnEvent(end_))
    /\ scanPc' = "done"
    /\ UNCHANGED <<fmt, sentinel, begin_, subend_, end_, cur, err, seqVars, logVars>>

\* scan(): the loop condition fails
ScanEnd ==
    /\ scanPc = "scan"
    /\ begin_ = end_
    /\ scanPc' = "done"
    /\ UNCHANGED <<fmt, sentinel, begin_, subend_, end_, cur, hooks, err, seqVars, logVars>>

\* scan() passing begin() where it passes lb to the last on_event
ScanTrailing_event_at_begin ==
    /\ scanPc = "scan"
    /\ begin_ # end_
    /\ Lb = end_
    /\ hooks' = Append(hooks, OnEvent(begin_))
    /\ scanPc' = "done"
    /\ UNCHANGED <<fmt, sentinel, begin_, subend_, end_, cur, err, seqVars, logVars>>

\* scan(): no bracket is left; on_event(lb); return
ScanTrailing ==
    /\ scanPc = "scan"
    /\ begin_ # end_
    /\ Lb = end_
    /\ hooks' = Append(hooks, OnEvent(Lb))
    /\ scanPc' = "done"
    /\ UNCHANGED <<fmt, sentinel, begin_, subend_, end_, cur, err, seqVars, logVars>>

\* scan() reporting a stray ']' with the error of an unmatched '['
ScanUnmatchedRight_left_error ==
    /\ scanPc = "scan"
    /\ begin_ # end_
    /\ Lb # end_
    /\ Deref(fmt, sentinel, Lb) = "]"
    /\ err' = UnmatchedLeft
    /\ scanPc' = "error"
    /\ UNCHANGED <<fmt, sentinel, begin_, subend_, end_, cur, hooks, seqVars, logVars>>

\* scan(): *lb == ']'
ScanUnmatchedRight ==
    /\ scanPc = "scan"
    /\ begin_ # end_
    /\ Lb # end_
    /\ Deref(fmt, sentinel, Lb) = "]"
    /\ err' = UnmatchedRight
    /\ scanPc' = "error"
    /\ UNCHANGED <<fmt, sentinel, begin_, subend_, end_, cur, hooks, seqVars, logVars>>

\* scan(): *rb == '[' || rb == end()
ScanUnmatchedLeft ==
    /\ scanPc = "scan"
    /\ begin_ # end_
    /\ Lb # end_
    /\ Deref(fmt, sentinel, Lb) # "]"
    /\ (Deref(fmt, sentinel, Rb) = "[" \/ Rb = end_)
    /\ err' = UnmatchedLeft
    /\ scanPc' = "error"
    /\ UNCHANGED <<fmt, sentinel, begin_, subend_, end_, cur, hooks, seqVars, logVars>>

\* scan() passing lb, one behind the '[', where it passes prev(lb) to on_event
ScanPlaceholder_event_behind_bracket ==
    /\ scanPc = "scan"
    /\ begin_ # end_
    /\ Lb # end_
    /\ Deref(fmt, sentinel, Lb) # "]"
    /\ ~(Deref(fmt, sentinel, Rb) = "[" \/ Rb = end_)
    /\ hooks' = Append(hooks, OnEvent(Lb1))
    /\ LET res == parse_namespace(AvailableSpecs, Slice(fmt, Lb1, Rb), Lb1) IN
       \/ /\ res.r = "throw"
          /\ err' = res.what
          /\ scanPc' = "error"
          /\ cur' = cur
       \/ /\ res.r = "front_of_empty"
          /\ err' \in {res.what, FrontOfEmpty}
          /\ scanPc' = "error"
          /\ cur' = cur
       \/ /\ res.r = "member"
          /\ cur' = [id |-> res.id, from |-> res.from, to |-> Rb]
          /\ scanPc' = "advance_to"
          /\ err' = err
    /\ UNCHANGED <<fmt, sentinel, begin_, subend_, end_, seqVars, logVars>>

\* scan(): on_event(prev(lb)); parse_namespace<AvailableSpecs>({lb, rb}), up to
\* the first change parse_member makes to the context
ScanPlaceholder ==
    /\ scanPc = "scan"
    /\ begin_ # end_
    /\ Lb # end_
    /\ Deref(fmt, sentinel, Lb) # "]"
    /\ ~(Deref(fmt, sentinel, Rb) = "[" \/ Rb = end_)
    /\ hooks' = Append(hooks, OnEvent(Lb1 - 1))
    /\ LET res == parse_namespace(AvailableSpecs, Slice(fmt, Lb1, Rb), Lb1) IN
       \/ /\ res.r = "throw"
          /\ err' = res.what
          /\ scanPc' = "error"
          /\ cur' = cur
       \/ /\ res.r = "front_of_empty"
          /\ err' \in {res.what, FrontOfEmpty}
          /\ scanPc' = "error"
          /\ cur' = cur
       \/ /\ res.r = "member"
          /\ cur' = [id |-> res.id, from |-> res.from, to |-> Rb]
          /\ scanPc' = "advance_to"
          /\ err' = err
    /\ UNCHANGED <<fmt, sentinel, begin_, subend_, end_, seqVars, logVars>>

\* parse_member: ctx_.advance_to(fmt.begin())
MemberAdvanceTo ==
    /\ scanPc = "advance_to"
    /\ begin_' = cur.from
    /\ scanPc' = "advance_subend_to"
    /\ UNCHANGED <<fmt, sentinel, subend_, end_, cur, hooks, err, seqVars, logVars>>

\* parse_member: ctx_.advance_subend_to(fmt.end())
MemberAdvanceSubendTo ==
    /\ scanPc = "advance_subend_to"
    /\ subend_' = cur.to
    /\ scanPc' = "consume_spec"
    /\ UNCHANGED <<fmt, sentinel, begin_, end_, cur, hooks, err, seqVars, logVars>>

\* parse_member: consume_spec(mb.id)
MemberConsumeSpec ==
    /\ scanPc = "consume_spec"
    /\ hooks' = Append(hooks, ConsumeSpec(cur.id))
    /\ scanPc' = "next"
    /\ UNCHANGED <<fmt, sentinel, begin_, subend_, end_, cur, err, seqVars, logVars>>

\* scan() leaving the cursor on the ']' of the placeholder it has consumed
ScanAdvance_stay_on_bracket ==
    /\ scanPc = "next"
    /\ begin_' = subend_
    /\ cur' = NoCur
    /\ scanPc' = "scan"
    /\ UNCHANGED <<fmt, sentinel, subend_, end_, hooks, err, seqVars, logVars>>

\* scan(): ctx_.advance_to(std::ranges::next(ctx_.subend(), 1, end()))
ScanAdvance ==
    /\ scanPc = "next"
    /\ begin_' = next(subend_, end_)
    /\ cur' = NoCur
    /\ scanPc' = "scan"
    /\ UNCHANGED <<fmt, sentinel, subend_, end_, hooks, err, seqVars, logVars>>

NextScan ==
    \/ ScanEnd
    \/ ScanTrailing
    \/ ScanUnmatchedRight
    \/ ScanUnmatchedLeft
    \/ ScanPlaceholder
    \/ MemberAdvanceTo
    \/ MemberAdvanceSubendTo
    \/ MemberConsumeSpec
    \/ ScanAdvance


(***************************************************************************)
(*                        logger.h, logger.cpp                             *)
(***************************************************************************)
Threads   == {1, 2}
Instances == {1, 2}     \* 1 is the global hyx::logger, 2 an instance of the caller's

\* log_level_to_string: the six level tags
Levels == {"TRACE", "DEBUG", "INFO", "WARNING", "ERROR", "FATAL"}

\* destinations: std::clog, a stream of the caller's, files
Clog    == "clog"
Streams == {"stream"}
\* log paths, with their parent_path(): "log" is a file name alone, whose
\* parent_path() is the empty path
ParentOf == [p \in {"new/log", "ro/log", "log"} |->
                IF p = "new/log" THEN "new" ELSE IF p = "ro/log" THEN "ro" ELSE ""]
Paths == DOMAIN ParentOf
CreatableDirs == {"new"}    \* create_directories succeeds for these only
Dests == {Clog} \cup Streams \cup {p \in Paths : ParentOf[p] \in CreatableDirs}
\* what an osyncstream wraps: the buffer of a stream, or the filebuf of
\* instance i's fstream
StreamBuf(s) == [of |-> "stream", stream |-> s, instance |-> 0]
FileBuf(i)   == [of |-> "fstream", stream |-> "none", instance |-> i]

\* std::source_location of the code each thread runs
Site == [t \in Threads |->
            [function_name |-> IF t = 1 THEN "f" ELSE "g",
             file_name |-> IF t = 1 THEN "a.cpp" ELSE "b.cpp",
             line |-> 10 * t]]
Locs == {Site[t] : t \in Threads}

NoOp    == [c |-> 0, kind |-> "none", fn |-> "none"]
NoGuard == [held |-> FALSE]

Running == fault = "none"

\* header::create_header: the text of a header (the time stamp left out)
HeaderText(c, level, source, pre) ==
    [k |-> "H", c |-> c, level |-> level, file |-> source.file_name,
     line |-> source.line, prefix |-> pre]
MessageText(c, text) == [k |-> "M", c |-> c, text |-> text]

\* operator<<(const header&, const auto&): out_stream << out
Write(buf, fail, text) == IF fail THEN buf ELSE Append(buf, text)

\* the destination an osyncstream target writes to: "closed" is a filebuf with
\* no file open
Resolve(w, fs) == IF w.of = "stream" THEN w.stream ELSE fs[w.instance]

\* basic_syncbuf::emit() of libstdc++: the held text goes to the wrapped buffer
\* whatever the stream's state; a closed filebuf takes nothing
SyncbufEmit(target, buf, dl) ==
    IF buf = <<>> THEN [pending |-> <<>>, delivered |-> dl, ok |-> TRUE]
    ELSE IF target = "closed" THEN [pending |-> buf, delivered |-> dl, ok |-> FALSE]
    ELSE [pending |-> <<>>, delivered |-> [dl EXCEPT ![target] = @ \o buf], ok |-> TRUE]

\* out_stream = std::osyncstream(target): the move assignment emits what is
\* held to the old target, takes the new one and the fresh stream's good state
Retarget(target, fs) ==
    /\ delivered' = SyncbufEmit(Resolve(wrapped, fs), pending, delivered).delivered
    /\ pending' = <<>>
    /\ failbit' = FALSE
    /\ wrapped' = target

\* std::string::find_last_of(ch): the 0-based index, -1 for npos
find_last_of(s, ch) ==
    LET hits == {i \in 1..Len(s) : s[i] = ch}
    IN IF hits = {} THEN -1 ELSE (CHOOSE i \in hits : \A j \in hits : j <= i) - 1
\* std::string::substr(pos, n)
substr(s, pos, n) == SubSeq(s, pos + 1, Min(pos + n, Len(s)))

\* the value push_prefix(pre) gives the prefix
push_prefix_value(p, pre) == p \o pre \o <<":", " ">>

\* the value pop_prefix() gives a prefix of two characters or more
pop_prefix_value(p) ==
    LET q == SubSeq(p, 1, Len(p) - 2)
        ending_idx == find_last_of(q, ":")
    IN IF ending_idx # -1 THEN substr(q, 0, ending_idx + 2) ELSE <<>>

\* logger::push_prefix
push_prefix(t, pre) ==
    /\ Running
    /\ pc[t] = "idle"
    /\ prefix' = push_prefix_value(prefix, pre)
    /\ UNCHANGED <<sinkVars, callVars, fault, scanVars, seqVars>>

\* pop_prefix without the test of prefix.empty()
pop_prefix_unguarded(t) ==
    /\ Running
    /\ pc[t] = "idle"
    /\ IF Len(prefix) < 2
       THEN prefix' = <<>> /\ fault' = "pop_back on an empty string"
       ELSE prefix' = pop_prefix_value(prefix) /\ fault' = fault
    /\ UNCHANGED <<sinkVars, callVars, scanVars, seqVars>>

\* logger::pop_prefix; pop_back() on an empty string is undefined
pop_prefix(t) ==
    /\ Running
    /\ pc[t] = "idle"
    /\ IF prefix = <<>>
       THEN UNCHANGED <<prefix, fault>>
       ELSE IF Len(prefix) < 2
            THEN prefix' = <<>> /\ fault' = "pop_back on an empty string"
            ELSE prefix' = pop_prefix_value(prefix) /\ fault' = fault
    /\ UNCHANGED <<sinkVars, callVars, scanVars, seqVars>>

\* std::ios state flags as far as the logger uses them: the failure flag alone
ios_goodbit == FALSE
ios_failbit == TRUE

\* basic_ios::setstate(s) is clear(rdstate() | s): it adds flags, never removes
setstate(rdstate, s) == rdstate \/ s

\* logger::disable: out_stream.setstate(std::ios::failbit)
disable(t, i) ==
    /\ Running
    /\ pc[t] = "idle"
    /\ i \in constructed
    /\ failbit' = setstate(failbit, ios_failbit)
    /\ UNCHANGED <<prefix, wrapped, pending, fstream, constructed, dirs, delivered,
                   callVars, fault, scanVars, seqVars>>

\* logger::enable: out_stream.setstate(std::ios::goodbit)
enable(t, i) ==
    /\ Running
    /\ pc[t] = "idle"
    /\ i \in constructed
    /\ failbit' = setstate(failbit, ios_goodbit)
    /\ UNCHANGED <<prefix, wrapped, pending, fstream, constructed, dirs, delivered,
                   callVars, fault, scanVars, seqVars>>

\* logger::open: whether it throws, and the directories afterwards.  The empty
\* path does not exist and create_directories does not take it.
open(log_path, ds) ==
    IF ParentOf[log_path] \in ds THEN [throws |-> FALSE, dirs |-> ds]
    ELSE IF ParentOf[log_path] \in CreatableDirs
         THEN [throws |-> FALSE, dirs |-> ds \cup {ParentOf[log_path]}]
         ELSE [throws |-> TRUE, dirs |-> ds]

\* logger::swap_to(const std::filesystem::path&)
swap_to_path(t, i, logpath) ==
    /\ Running
    /\ pc[t] = "idle"
    /\ i \in constructed
    /\ LET closed == [fstream EXCEPT ![i] = "closed"]
           o == open(logpath, dirs)
       IN IF o.throws
          THEN /\ fstream' = closed
               /\ UNCHANGED <<wrapped, failbit, pending, dirs, delivered>>
          ELSE /\ fstream' = [closed EXCEPT ![i] = logpath]
               /\ dirs' = o.dirs
               /\ Retarget(FileBuf(i), fstream')
    /\ UNCHANGED <<prefix, constructed, callVars, fault, scanVars, seqVars>>

\* logger::swap_to(std::ostream&)
swap_to_stream(t, i, new_out_stream) ==
    /\ Running
    /\ pc[t] = "idle"
    /\ i \in constructed
    /\ fstream' = [fstream EXCEPT ![i] = "closed"]
    /\ Retarget(StreamBuf(new_out_stream), fstream')
    /\ UNCHANGED <<prefix, constructed, dirs, callVars, fault, scanVars, seqVars>>

\* explicit logger()
construct(t, i) ==
    /\ Running
    /\ pc[t] = "idle"
    /\ i \notin constructed
    /\ constructed' = constructed \cup {i}
    /\ UNCHANGED <<prefix, wrapped, failbit, pending, fstream, dirs, delivered,
                   callVars, fault, scanVars, seqVars>>

\* explicit logger(const std::filesystem::path&)
construct_path(t, i, logpath) ==
    /\ Running
    /\ pc[t] = "idle"
    /\ i \notin constructed
    /\ LET o == open(logpath, dirs)
       IN IF o.throws
          THEN UNCHANGED <<sinkVars>>
          ELSE /\ fstream' = [fstream EXCEPT ![i] = logpath]
               /\ dirs' = o.dirs
               /\ constructed' = constructed \cup {i}
               /\ Retarget(FileBuf(i), fstream')
    /\ UNCHANGED <<prefix, callVars, fault, scanVars, seqVars>>

\* log_level_t::operator(), first step: header(level, strwloc.location)
level_call(t, i, level) ==
    /\ Running
    /\ pc[t] = "idle"
    /\ i \in constructed
    /\ ncalls < MaxCalls
    /\ ncalls' = ncalls + 1
    /\ pending' = Write(pending, failbit, HeaderText(ncalls', level, Site[t], prefix))
    /\ pc' = [pc EXCEPT ![t] = "format"]
    /\ op' = [op EXCEPT ![t] = [c |-> ncalls', kind |-> "call", fn |-> "none"]]
    /\ UNCHANGED <<prefix, wrapped, failbit, fstream, constructed, dirs, delivered,
                   guard, fault, scanVars, seqVars>>

\* log_level_t::operator(), second step: << std::vformat(...), which throws
\* std::format_error for a message template its arguments do not fit
format_message(t) ==
    /\ Running
    /\ pc[t] = "format"
    /\ \/ /\ pending' = Write(pending, failbit, MessageText(op[t].c, <<"message">>))
          /\ pc' = [pc EXCEPT ![t] = "emit"]
          /\ op' = op
       \/ /\ pending' = pending
          /\ pc' = [pc EXCEPT ![t] = "idle"]
          /\ op' = [op EXCEPT ![t] = NoOp]
    /\ UNCHANGED <<prefix, wrapped, failbit, fstream, constructed, dirs, delivered,
                   guard, ncalls, fault, scanVars, seqVars>>

\* log_function_guard(ll, loc), first step: header(log_level, source_location).
\* The guard keeps a reference to loc: live tells whether loc is an object of
\* the caller's that outlives the guard, or the temporary of the default
\* argument, which ends with the guard's declaration.
guard_acquire(t, i, level, live) ==
    /\ Running
    /\ pc[t] = "idle"
    /\ i \in constructed
    /\ ~guard[t].held
    /\ ncalls + 2 <= MaxCalls
    /\ ncalls' = ncalls + 1
    /\ pending' = Write(pending, failbit, HeaderText(ncalls', level, Site[t], prefix))
    /\ pc' = [pc EXCEPT ![t] = "text"]
    /\ op' = [op EXCEPT ![t] = [c |-> ncalls', kind |-> "Start", fn |-> Site[t].function_name]]
    /\ guard' = [guard EXCEPT ![t] = [held |-> TRUE, log_level |-> level,
                                      source_location |-> Site[t], live |-> live]]
    /\ UNCHANGED <<prefix, wrapped, failbit, fstream, constructed, dirs, delivered,
                   fault, scanVars, seqVars>>

\* ~log_function_guard(), first step: header(log_level, source_location).  A
\* reference whose object is gone reads as any location, or stops the program.
guard_release(t) ==
    /\ Running
    /\ pc[t] = "idle"
    /\ guard[t].held
    /\ guard' = [guard EXCEPT ![t] = NoGuard]
    /\ \/ \E source \in (IF guard[t].live THEN {guard[t].source_location} ELSE Locs) :
             /\ ncalls' = ncalls + 1
             /\ pending' = Write(pending, failbit,
                                 HeaderText(ncalls', guard[t].log_level, source, prefix))
             /\ pc' = [pc EXCEPT ![t] = "text"]
             /\ op' = [op EXCEPT ![t] = [c |-> ncalls', kind |-> "End", fn |-> source.function_name]]
             /\ fault' = fault
       \/ /\ ~guard[t].live
          /\ fault' = "read through a dangling reference"
          /\ UNCHANGED <<ncalls, pending, pc, op>>
    /\ UNCHANGED <<prefix, wrapped, failbit, fstream, constructed, dirs, delivered,
                   scanVars, seqVars>>

\* log_function_guard: << function_name() << ": Start\n" or ": End\n"
guard_text(t) ==
    /\ Running
    /\ pc[t] = "text"
    /\ pending' = Write(pending, failbit, MessageText(op[t].c, <<op[t].fn, op[t].kind>>))
    /\ pc' = [pc EXCEPT ![t] = "emit"]
    /\ UNCHANGED <<prefix, wrapped, failbit, fstream, constructed, dirs, delivered,
                   op, guard, ncalls, fault, scanVars, seqVars>>

\* logger::emit: out_stream.emit(), the last step of every log call
emit(t) ==
    /\ Running
    /\ pc[t] = "emit"
    /\ LET r == SyncbufEmit(Resolve(wrapped, fstream), pending, delivered)
       IN /\ pending' = r.pending
          /\ delivered' = r.delivered
          /\ failbit' = (failbit \/ ~r.ok)
    /\ pc' = [pc EXCEPT ![t] = "idle"]
    /\ op' = [op EXCEPT ![t] = NoOp]
    /\ UNCHANGED <<prefix, wrapped, fstream, constructed, dirs, guard, ncalls,
                   fault, scanVars, seqVars>>

LogLabels == {<<"a">>}
Labels    == {<<>>, <<"a">>, <<"b">>, <<":">>, <<"a", ":", "b">>}

\* the state after static initialisation: out_stream(std::clog), prefix{},
\* the global logger constructed by logger()
InitLog ==
    /\ prefix = <<>>
    /\ wrapped = StreamBuf(Clog)
    /\ failbit = FALSE
    /\ pending = <<>>
    /\ fstream = [i \in Instances |-> "closed"]
    /\ constructed = {1}
    /\ dirs = {}
    /\ delivered = [d \in Dests |-> <<>>]
    /\ pc = [t \in Threads |-> "idle"]
    /\ op = [t \in Threads |-> NoOp]
    /\ guard = [t \in Threads |-> NoGuard]
    /\ ncalls = 0
    /\ fault = "none"

\* the steps of threads T: on the prefix stack, ...
PrefixOps(T) ==
    \/ \E t \in T, pre \in LogLabels :
          Len(prefix) + Len(pre) + 2 <= MaxLogPrefixLen /\ push_prefix(t, pre)
    \/ \E t \in T : pop_prefix(t)

\* ... switching the output of instances I off and on, ...
SwitchOps(T, I) ==
    \/ \E t \in T, i \in I : disable(t, i)
    \/ \E t \in T, i \in I : enable(t, i)

\* ... constructing and re-targeting instances I, ...
SinkOps(T, I) ==
    \/ \E t \in T, i \in I, logpath \in Paths : swap_to_path(t, i, logpath)
    \/ \E t \in T, i \in I, s \in Streams : swap_to_stream(t, i, s)
    \/ \E t \in T, i \in I : construct(t, i)
    \/ \E t \in T, i \in I, logpath \in Paths : construct_path(t, i, logpath)

\* ... logging at levels L through instances I, ...
CallOps(T, I, L) ==
    \/ \E t \in T, i \in I, level \in L : level_call(t, i, level)
    \/ \E t \in T : format_message(t)
    \/ \E t \in T : emit(t)

\* ... and tracing a function at levels L.
GuardOps(T, I, L) ==
    \/ \E t \in T, i \in I, level \in L, live \in BOOLEAN :
          guard_acquire(t, i, level, live)
    \/ \E t \in T : guard_release(t)
    \/ \E t \in T : guard_text(t)

\* the global logger and a second instance, used by one thread
Init == InitLog /\ ScanIdle /\ SeqIdle
Next ==
    \/ PrefixOps({1})
    \/ SwitchOps({1}, Instances)
    \/ SinkOps({1}, Instances)
    \/ CallOps({1}, Instances, {"INFO"})
    \/ GuardOps({1}, Instances, {"TRACE"})
Spec == Init /\ [][Next]_vars

\* the global logger, used by two threads
NextThreads ==
    \/ SwitchOps(Threads, {1})
    \/ CallOps(Threads, {1}, {"INFO", "ERROR"})
SpecThreads == Init /\ [][NextThreads]_vars

\* the global logger at every level
NextLevels ==
    \/ PrefixOps({1})
    \/ SwitchOps({1}, {1})
    \/ CallOps({1}, {1}, Levels)
    \/ GuardOps({1}, {1}, Levels)
SpecLevels == Init /\ [][NextLevels]_vars

\* the prefix stack of the legacy logger alone
NextPrefix ==
    \/ \E pre \in Labels :
          Len(prefix) + Len(pre) + 2 <= MaxPrefixLen /\ push_prefix(1, pre)
    \/ pop_prefix(1)
SpecPrefix == Init /\ [][NextPrefix]_vars

\* the prefix stack with the sink re-targeted and switched off and on, no
\* record being logged
NextSink ==
    \/ \E pre \in Labels :
          Len(prefix) + Len(pre) + 2 <= MaxPrefixLen /\ push_prefix(1, pre)
    \/ pop_prefix(1)
    \/ SwitchOps({1}, Instances)
    \/ SinkOps({1}, Instances)
SpecSink == Init /\ [][NextSink]_vars

\* one scan of one template by the scan engine
ScanInit == InitScan /\ SeqIdle /\ InitLog
SpecScan == ScanInit /\ [][NextScan]_vars

\* one evaluation of one type-level list operation
SeqInit == InitSeq /\ ScanIdle /\ InitLog
SpecSeq == SeqInit /\ [][NextSeq]_vars

\* find_next_valid_bracket called by itself, as scan() calls it, from every
\* start of every short text: begin_ holds start, end_ the end bound, cur.to
\* the iterator returned
InitFind ==
    /\ fmt \in SeqsUpTo(Alphabet, MaxFmtLen)
    /\ sentinel \in Sentinels
    /\ begin_ \in 0..Len(fmt)
    /\ subend_ = Len(fmt)
    /\ end_ = subend_
    /\ scanPc = "find"
    /\ cur = NoCur
    /\ hooks = <<>>
    /\ err = "none"

FindBracket ==
    /\ scanPc = "find"
    /\ cur' = [id |-> "none", from |-> begin_,
               to |-> find_next_valid_bracket(fmt, sentinel, begin_, end_)]
    /\ scanPc' = "found"
    /\ UNCHANGED <<fmt, sentinel, begin_, subend_, end_, hooks, err, seqVars, logVars>>

NextFind == FindBracket
FindInit == InitFind /\ SeqIdle /\ InitLog
SpecFind == FindInit /\ [][NextFind]_vars


(***************************************************************************)
(*                         Properties: scan engine                         *)
(***************************************************************************)
\* the consume_spec calls made so far, each as <<kind, trailing spec text>>
SpecHooks == SelectSeq(hooks, LAMBDA h : h.k = "spec")
LitHooks  == SelectSeq(hooks, LAMBDA h : h.k = "lit")
PlaceholdersSeen == [i \in 1..Len(SpecHooks) |-> <<SpecHooks[i].id, Slice(fmt, SpecHooks[i].from, SpecHooks[i].to)>>]
ScanFinished == scanPc \in {"done", "error"}

ExampleKinds == <<<<"utc", <<"%", "F", "T", "%", "T", "Z">>>>, <<"lvl", <<>>>>, <<"line", <<>>>>>>

\* C5 (as stated): the template [cl::utc;%FT%TZ][lvl][sl::line] is accepted and
\* scans as exactly the three placeholders utc "%FT%TZ", lvl "", line "", with
\* no format error.
C5_ExampleAccepted ==
    (fmt = ExampleTemplate /\ ScanFinished)
        => (scanPc = "done" /\ err = "none" /\ PlaceholdersSeen = ExampleKinds)

\* C5 (amended): the template [cl::utc;%FT%TZ][lvl][sl::line] is rejected: after
\* the placeholder utc "%FT%TZ" the scan throws "unknown namespace spec" at
\* [lvl]; written in full, [cl::utc;%FT%TZ][::lvl;][sl::line;], it is accepted
\* and scans as exactly the three placeholders utc "%FT%TZ", lvl "", line "".
C5_ExampleNeedsFullForm ==
    /\ (fmt = ExampleTemplate /\ ScanFinished)
           => (scanPc = "error" /\ err = UnknownNs /\ PlaceholdersSeen = <<ExampleKinds[1]>>)
    /\ fmt = ExampleTemplateFull => err = "none" /\ scanPc # "error"
    /\ (fmt = ExampleTemplateFull /\ ScanFinished) => PlaceholdersSeen = ExampleKinds

C5_Witness ==
    fmt = ExampleTemplate /\ scanPc = "error" /\ err = UnknownNs /\ Len(SpecHooks) = 1

\* The pass of scan() that starts at begin_ meets a placeholder "[body]".
PassIsPlaceholder ==
    /\ begin_ # end_
    /\ Lb # end_
    /\ Deref(fmt, sentinel, Lb) = "["
    /\ Rb # end_
    /\ Deref(fmt, sentinel, Rb) = "]"
Body == Slice(fmt, Lb1, Rb)
\* the namespaces whose label the body begins with
BodyNamespaces == {i \in 1..Len(AvailableSpecs) : starts_with(Body, AvailableSpecs[i].ns)}
\* the text of s before its first ';'
RECURSIVE UpToSemi(_)
UpToSemi(s) == IF s = <<>> \/ Head(s) = ";" THEN <<>> ELSE <<Head(s)>> \o UpToSemi(Tail(s))
MemberText(i) == UpToSemi(remove_prefix(Body, Len(AvailableSpecs[i].ns)))
\* begin_ is still the start of the pass in these places of scan()
AtPass == scanPc \in {"scan", "error", "advance_to"}

\* C6 (as stated): a placeholder body beginning with a namespace label whose
\* member text (up to the first ';') is not a member label of that namespace
\* fails with "unknown namespace member", and with no other error.
C6_UnknownMemberText ==
    \A i \in 1..Len(AvailableSpecs) :
        (AtPass /\ PassIsPlaceholder /\ i \in BodyNamespaces
            /\ MemberText(i) \notin MemberLabels(AvailableSpecs[i]))
        => (scanPc # "advance_to" /\ (scanPc = "error" => err = UnknownMember))

\* C6 (amended): a placeholder body beginning with a namespace label whose
\* member text does not begin with any member label of that namespace fails
\* with "unknown namespace member", and with no other error.
C6_UnknownMemberPrefix ==
    \A i \in 1..Len(AvailableSpecs) :
        (AtPass /\ PassIsPlaceholder /\ i \in BodyNamespaces
            /\ \A l \in MemberLabels(AvailableSpecs[i]) : ~starts_with(MemberText(i), l))
        => (scanPc # "advance_to" /\ (scanPc = "error" => err = UnknownMember))

C6_Witness ==
    /\ fmt = <<"[", "c", "l", ":", ":", "n", "o", "p", "e", ";", "]">>
    /\ scanPc = "error"
    /\ err = UnknownMember

\* C8 (as stated): in every state of a scan start <= subend <= end, all three
\* within the span.
C8_StartSubendEnd ==
    /\ 0 <= begin_ /\ begin_ <= subend_ /\ subend_ <= end_
    /\ end_ <= Len(fmt)

\* C8 (amended): in every state of a scan start and subend lie within the span
\* and end is its end; start <= subend holds until the first placeholder hook
\* has been called and whenever a placeholder hook is called, but once a
\* placeholder has been consumed and the cursor moved past its ']' start is
\* subend + 1, and start stays above subend until the next placeholder's
\* subend is set.
C8_WithinSpan ==
    /\ end_ = Len(fmt)
    /\ begin_ \in 0..end_
    /\ subend_ \in 0..end_
    /\ (SpecHooks = <<>> \/ scanPc \in {"consume_spec", "next"}) => begin_ <= subend_
    /\ (SpecHooks # <<>> /\ scanPc \in {"scan", "done", "error", "advance_to"}) => begin_ = subend_ + 1
    /\ (SpecHooks # <<>> /\ scanPc = "advance_subend_to") => begin_ > subend_

C8_Witness ==
    /\ Len(SpecHooks) = 2
    /\ scanPc = "done"
    /\ begin_ = subend_ + 1

BracketFree(s) == \A i \in 1..Len(s) : s[i] \notin {"[", "]"}

FirstOccurrences(S) ==
    LET keep == {i \in 1..Len(S) : \A j \in 1..(i - 1) : S[j] # S[i]}
        RECURSIVE Pick(_)
        Pick(i) == IF i > Len(S) THEN <<>>
                   ELSE (IF i \in keep THEN <<S[i]>> ELSE <<>>) \o Pick(i + 1)
    IN Pick(1)

\* C7: unique keeps exactly the first occurrence of each distinct type, in the
\* order in which the first occurrences appear in the input.
C7_UniqueFirstSeenOrder ==
    seqOp = "unique" => seqOut = FirstOccurrences(seqIn)


(***************************************************************************)
(*                       Properties: legacy logger                         *)
(***************************************************************************)
\* the text of call c does not enclose text of another call in s
Contiguous(s) ==
    \A i, j, k \in 1..Len(s) : (i < j /\ j < k /\ s[i].c = s[k].c) => s[j].c = s[i].c

\* C1: with two threads logging concurrently through the same sink, in every
\* interleaving of their write-header, write-message and emit steps what a
\* destination receives is a sequence of whole records: no call's header and
\* message are separated by text of another call.
C1_RecordsNotInterleaved ==
    \A d \in Dests : Contiguous(delivered[d])

\* C2: in every state the logger reaches, also after disable(), the failure
\* flag that enable() leaves on the sink is clear, so that the level-tag calls
\* that follow deliver their header and message.
C2_EnableClearsFailure ==
    ~setstate(failbit, ios_goodbit)

\* out_stream is a static member: the destination and the failure flag that
\* instance j logs with are those of every instance
DestinationOf(j) == wrapped
EnabledOf(j)     == ~failbit

\* C4: logger instances share no sink: swap_to, disable, enable and construction
\* from a path on instance i leave the destination and the enabled state of
\* every other instance unchanged.
C4_InstancesShareNoSink ==
    [][\A t \in Threads, i \in Instances :
          (\/ disable(t, i)
           \/ enable(t, i)
           \/ \E s \in Streams : swap_to_stream(t, i, s)
           \/ \E logpath \in Paths : swap_to_path(t, i, logpath)
           \/ \E logpath \in Paths : construct_path(t, i, logpath))
          => \A j \in Instances \ {i} :
                /\ DestinationOf(j)' = DestinationOf(j)
                /\ EnabledOf(j)' = EnabledOf(j)]_vars

\* C3: from every prefix reached by push_prefix and pop_prefix calls, and for
\* every label L, push_prefix(L) appends exactly "L: " and the pop_prefix()
\* that follows restores the prefix as it was before the push.
C3_PopRestoresPrefix ==
    \A pre \in Labels :
        /\ push_prefix_value(prefix, pre) = prefix \o pre \o <<":", " ">>
        /\ pop_prefix_value(push_prefix_value(prefix, pre)) = prefix

\* C10: with the logger enabled, releasing a log_function_guard, however its
\* scope is left, starts exactly one End record, after its Start record, through
\* the header of the level and the function the guard was bound to.
C10_GuardEndRecord ==
    [][\A t \in Threads :
          (guard_release(t) /\ ~failbit)
          => /\ op'[t].kind = "End"
             /\ op'[t].fn = guard[t].source_location.function_name
             /\ pending' = Append(pending, HeaderText(ncalls + 1, guard[t].log_level,
                                                      guard[t].source_location, prefix))]_vars

\* what destination d receives in a step
Received(d) == SubSeq(delivered'[d], Len(delivered[d]) + 1, Len(delivered'[d]))

\* C11: with the logger enabled, the emit that ends a call of any of the six
\* level tags delivers exactly one record, the header of that call followed by
\* its rendered message, to one destination, and leaves nothing pending.
C11_OneRecordPerCall ==
    [][\A t \in Threads :
          (emit(t) /\ op[t].kind = "call" /\ ~failbit)
          => /\ pending' = <<>>
             /\ \E d \in Dests :
                   /\ Len(Received(d)) = 2
                   /\ Received(d)[1].k = "H" /\ Received(d)[1].c = op[t].c
                   /\ Received(d)[2] = MessageText(op[t].c, <<"message">>)
                   /\ \A e \in Dests \ {d} : delivered'[e] = delivered[e]]_vars

\* C12: while the logger is disabled (the failure flag disable() sets is up, and
\* no step of this code takes it down short of re-targeting the sink) no
\* level-tag call and no guard acquisition or release delivers anything.
C12_NothingDeliveredWhileDisabled ==
    [][failbit => delivered' = delivered]_vars

(***************************************************************************)
(*                     Properties: bracket scanner                         *)
(***************************************************************************)
\* the rules of the bracket search, applied to the text s[start, end) alone
RECURSIVE NextMeaningfulBracket(_, _, _)
NextMeaningfulBracket(s, start, end) ==
    IF start >= end THEN end
    ELSE LET c  == s[start + 1]
             f1 == start + 1 < end /\ s[start + 2] = c
             f2 == start + 2 < end /\ s[start + 3] = c
         IN IF c = "["
            THEN IF f1 THEN NextMeaningfulBracket(s, start + 2, end) ELSE start
            ELSE IF c = "]"
                 THEN IF f1 /\ ~f2 THEN NextMeaningfulBracket(s, start + 2, end) ELSE start
                 ELSE NextMeaningfulBracket(s, start + 1, end)

\* C13: for every text over '[', ']' and other characters and every start in
\* it, find_next_valid_bracket(start, end) returns the position the rules give:
\* "[[" and a "]]" not followed by a third ']' are skipped as pairs, any other
\* '[' or ']' is returned, other characters are skipped, and the end bound is
\* returned when nothing is found.
C13_BracketRules ==
    scanPc = "found" => cur.to = NextMeaningfulBracket(fmt, begin_, end_)

(***************************************************************************)
(*                  Properties: placeholders and errors                    *)
(***************************************************************************)
\* the table of the grammar: namespace label, member label, kind
C14_Table ==
    {<<<<":", ":">>, <<"l", "v", "l">>, "lvl">>,
     <<<<"c", "l", ":", ":">>, <<"s", "y", "s">>, "sys">>,
     <<<<"c", "l", ":", ":">>, <<"u", "t", "c">>, "utc">>,
     <<<<"c", "l", ":", ":">>, <<"t", "a", "i">>, "tai">>,
     <<<<"c", "l", ":", ":">>, <<"g", "p", "s">>, "gps">>,
     <<<<"c", "l", ":", ":">>, <<"f", "i", "l", "e">>, "file">>,
     <<<<"s", "l", ":", ":">>, <<"l", "i", "n", "e">>, "line">>,
     <<<<"s", "l", ":", ":">>, <<"c", "o", "l", "u", "m", "n">>, "column">>,
     <<<<"s", "l", ":", ":">>, <<"f", "i", "l", "e", "_", "n", "a", "m", "e">>, "file_name">>,
     <<<<"s", "l", ":", ":">>, <<"f", "u", "n", "c", "t", "i", "o", "n", "_", "n", "a", "m", "e">>, "function_name">>}

\* C14: for each of the ten tabulated (namespace, member) pairs and every
\* bracket-free trailing spec S, the scan engine raises no error of its own on
\* "[<namespace><member>;S]" and calls the placeholder hook exactly once, with
\* the tabulated kind and with S as the trailing spec.
C14_TabulatedKinds ==
    \A e \in C14_Table, S \in SpecTexts :
        fmt = Placeholder(e[1], e[2], <<";">>, S)
        => /\ scanPc # "error" /\ err = "none"
           /\ Len(SpecHooks) <= 1
           /\ scanPc \in {"next", "done"} => PlaceholdersSeen = <<<<e[3], S>>>>
           /\ scanPc = "scan" => (PlaceholdersSeen = <<<<e[3], S>>>> <=> begin_ = end_)

C14_Witness ==
    /\ fmt = Placeholder(source_namespace, <<"f", "i", "l", "e", "_", "n", "a", "m", "e">>, <<";">>, <<"%", "Y">>)
    /\ scanPc = "done"
    /\ PlaceholdersSeen = <<<<"file_name", <<"%", "Y">>>>>>

\* the first meaningful bracket at or after the cursor, by the rules of the
\* bracket search, and the one after it
FirstBracket  == NextMeaningfulBracket(fmt, begin_, end_)
SecondBracket == NextMeaningfulBracket(fmt, FirstBracket + 1, end_)

\* C15: a pass of scan() whose first meaningful bracket from the cursor is ']'
\* fails with the "unmatched ']'" format error, and calls no hook.
C15_UnmatchedRight ==
    [][(scanPc = "scan" /\ FirstBracket < end_ /\ fmt[FirstBracket + 1] = "]")
       => (scanPc' = "error" /\ err' = UnmatchedRight /\ hooks' = hooks)]_vars

C15_Witness ==
    fmt = <<"a", "]">> /\ scanPc = "error" /\ err = UnmatchedRight /\ hooks = <<>>

\* C16: a pass of scan() that meets a meaningful '[' after which the next
\* meaningful bracket is another '[' or does not exist fails with the
\* "unmatched '['" format error, and calls no hook for that opening bracket.
C16_UnmatchedLeft ==
    [][(/\ scanPc = "scan"
        /\ FirstBracket < end_ /\ fmt[FirstBracket + 1] = "["
        /\ (SecondBracket = end_ \/ fmt[SecondBracket + 1] = "["))
       => (scanPc' = "error" /\ err' = UnmatchedLeft /\ hooks' = hooks)]_vars

\* C17: a placeholder whose body begins with none of the three namespace
\* labels, the empty body included, fails with the "unknown namespace" format
\* error.
C17_UnknownNamespace ==
    [][(scanPc = "scan" /\ PassIsPlaceholder /\ BodyNamespaces = {})
       => (scanPc' = "error" /\ err' = UnknownNs /\ SpecHooks' = SpecHooks)]_vars

C17_Witness ==
    /\ fmt = Placeholder(<<"b", "a", "d", ":", ":">>, <<"n", "o", "p", "e">>, <<";">>, <<>>)
    /\ scanPc = "error"
    /\ err = UnknownNs

\* the body is a namespace label and one of its member labels, and what follows
\* the member label, if anything, is not ';'
MemberWithoutSemi ==
    \E i \in BodyNamespaces :
        LET rest == remove_prefix(Body, Len(AvailableSpecs[i].ns)) IN
        \E l \in MemberLabels(AvailableSpecs[i]) :
            starts_with(rest, l) /\ ~starts_with(rest, l \o <<";">>)

\* C18: a placeholder whose body is a known namespace label and one of its
\* member labels not immediately followed by ';', also when the body ends with
\* the member label, fails with the "missing semi-colon" format error and the
\* placeholder hook is not called.
C18_MissingSemicolon ==
    [][(scanPc = "scan" /\ PassIsPlaceholder /\ MemberWithoutSemi)
       => (scanPc' = "error" /\ err' = MissingSemi /\ SpecHooks' = SpecHooks)]_vars

(***************************************************************************)
(*                 Properties: split, cat and reverse                      *)
(***************************************************************************)
\* C19: for every type sequence S and every k in [0, length(S)],
\* split_first_t<k, S> is the prefix [0, k) of S, split_second_t<k, S> the
\* suffix [k, end), and cat_t of the two is S.
C19_SplitThenCat ==
    /\ seqOp = "split" /\ seqPos <= Len(seqIn) =>
          /\ ~seqErr
          /\ seqOut = SubSeq(seqIn, 1, seqPos)
          /\ seqOut2 = SubSeq(seqIn, seqPos + 1, Len(seqIn))
    /\ seqOp = "cat" => seqOut = seqIn

C19_Witness ==
    seqOp = "cat" /\ seqIn = <<"int", "bool", "short", "int">> /\ seqPos = 2 /\ seqOut = seqIn

\* C20: for every type sequence S, the empty one included, reverse_t<S> lists
\* the elements of S in the opposite order, and reverse_t<reverse_t<S>> is S.
C20_ReverseInvolution ==
    /\ seqOp = "reverse" => /\ Len(seqOut) = Len(seqIn)
                            /\ \A i \in 1..Len(seqIn) : seqOut[i] = seqIn[Len(seqIn) + 1 - i]
    /\ seqOp = "reverse twice" => seqOut = seqIn

C20_Witness ==
    seqOp = "reverse twice" /\ seqIn = <<"int", "bool", "short">> /\ seqOut = seqIn


(***************************************************************************)
(*        Properties: preconditions of the type-level operations           *)
(***************************************************************************)
\* C21: every precondition violation of the type-level list operations is an
\* error and never a result: get<Pos, S> with Pos >= length(S), front_t,
\* back_t and pop_front_t on the empty sequence, and split or insert at a
\* position greater than length(S).
C21_PreconditionViolationsAreErrors ==
    /\ seqOp = "get" /\ seqPos >= Len(seqIn) => seqErr
    /\ seqOp \in {"front", "back", "pop_front"} /\ seqIn = <<>> => seqErr
    /\ seqOp \in {"split", "insert"} /\ seqPos > Len(seqIn) => seqErr

C21_Witness ==
    /\ seqOp = "get"
    /\ seqIn = <<"short", "bool", "int">>
    /\ seqPos = 3
    /\ seqErr


(***************************************************************************)
(*            Properties: construction and re-targeting                    *)
(***************************************************************************)
\* the directory a log path lies in exists: a file name alone lies in the
\* working directory
ParentDirectoryExists(logpath) == ParentOf[logpath] = "" \/ ParentOf[logpath] \in dirs

\* C22: constructing a legacy logger from a path has exactly these outcomes: the
\* parent directory exists and construction completes with the file opened; it
\* is missing and can be created, is created, and construction completes
\* likewise; it is missing and cannot be created, and construction raises an
\* error.  Construction completes exactly when open does not throw.
C22_ConstructionOutcomes ==
    \A logpath \in Paths :
        LET o == open(logpath, dirs) IN
        /\ ParentDirectoryExists(logpath) => ~o.throws /\ o.dirs = dirs
        /\ ~ParentDirectoryExists(logpath) /\ ParentOf[logpath] \in CreatableDirs
              => ~o.throws /\ o.dirs = dirs \cup {ParentOf[logpath]}
        /\ ~ParentDirectoryExists(logpath) /\ ParentOf[logpath] \notin CreatableDirs
              => o.throws

\* a step of swap_to that re-targets the sink to another buffer
Retargeted == constructed' = constructed /\ wrapped' # wrapped

\* C23: swap_to(path) and swap_to(stream) close the current backing file before
\* the sink is re-targeted, and every record logged after swap_to returns is
\* delivered to the new destination only, never to the previous one.
C23_SwapTearsDownThenRetargets ==
    [][/\ Retargeted /\ wrapped.of = "fstream" => fstream'[wrapped.instance] = "closed"
       /\ \A d \in Dests :
             (wrapped' = wrapped /\ fstream' = fstream /\ delivered'[d] # delivered[d])
                 => d = Resolve(wrapped, fstream)]_vars


(***************************************************************************)
(*                Properties: scan engine, reads and hooks                 *)
(***************************************************************************)
\* the pass of scan() about to run hands a placeholder body to parse_namespace
PassParses ==
    /\ scanPc = "scan" /\ begin_ # end_ /\ Lb # end_
    /\ Deref(fmt, sentinel, Lb) # "]"
    /\ ~(Deref(fmt, sentinel, Rb) = "[" \/ Rb = end_)

\* C24: while scanning any template, find_next_valid_bracket, scan and
\* parse_member never read a character at or beyond the end bound of the span
\* they were given: no pass of scan() dereferences an offset at or behind
\* end(), and parse_member never takes front() of an emptied body.
C24_NoReadAtOrBeyondEnd ==
    /\ (scanPc = "scan" /\ begin_ # end_) => \A p \in ScanReads : p < end_
    /\ PassParses =>
          parse_namespace(AvailableSpecs, Slice(fmt, Lb1, Rb), Lb1).r # "front_of_empty"

LastHook == hooks[Len(hooks)]

BehindLastPlaceholder ==
    IF SpecHooks = <<>> THEN 0 ELSE next(SpecHooks[Len(SpecHooks)].to, end_)

C26_PlaceholderHookOrder ==
    /\ \A j \in 1..Len(hooks) :
          hooks[j].k = "spec" =>
             /\ j >= 2 /\ hooks[j - 1].k = "lit"
             /\ j > 2 => hooks[j - 2].k = "spec"
             /\ hooks[j - 1].from = (IF j = 2 THEN 0 ELSE hooks[j - 2].to + 1)
             /\ hooks[j - 1].from <= hooks[j - 1].to
             /\ Deref(fmt, sentinel, hooks[j - 1].to) = "[" /\ hooks[j - 1].to < end_
             /\ \E e \in C14_Table :
                   /\ e[3] = hooks[j].id
                   /\ Slice(fmt, hooks[j - 1].to + 1, hooks[j].from) = e[1] \o e[2] \o <<";">>
             /\ hooks[j].from <= hooks[j].to
             /\ Deref(fmt, sentinel, hooks[j].to) = "]" /\ hooks[j].to < end_
             /\ BracketFree(Slice(fmt, hooks[j].from, hooks[j].to))
    /\ (hooks # <<>> /\ LastHook.k = "spec" /\ scanPc \in {"scan", "done", "error"})
          => begin_ = LastHook.to + 1
    /\ scanPc = "consume_spec" => begin_ = cur.from /\ subend_ = cur.to
    /\ (fmt = ExampleLiteralTemplate /\ scanPc = "done")
          => /\ Len(hooks) = 3
             /\ Slice(fmt, hooks[1].from, hooks[1].to) = <<"a">>
             /\ PlaceholdersSeen = <<<<"utc", <<"%", "Y">>>>>>
             /\ Slice(fmt, hooks[3].from, hooks[3].to) = <<"b">>

C26_Witness ==
    /\ fmt = ExampleLiteralTemplate
    /\ scanPc = "done"
    /\ hooks = <<[k |-> "lit", from |-> 0, to |-> 1],
                 [k |-> "spec", id |-> "utc", from |-> 10, to |-> 12],
                 [k |-> "lit", from |-> 13, to |-> 14]>>


(***************************************************************************)
(*                  Properties: prefix, records, guards                    *)
(***************************************************************************)
\* C27: after any sequence of push_prefix and pop_prefix calls with arbitrary
\* label texts the shared prefix is empty or ends with ": ", so pop_prefix never
\* removes its two trailing characters from a prefix shorter than two.
C27_PrefixEmptyOrSeparated ==
    /\ prefix = <<>> \/ (Len(prefix) >= 2 /\ SubSeq(prefix, Len(prefix) - 1, Len(prefix)) = <<":", " ">>)
    /\ fault # "pop_back on an empty string"

\* the text held by the sink that call c did not write
WithoutCall(buf, c) == SelectSeq(buf, LAMBDA x : x.c # c)

\* C28: if rendering the message of a level-tag call fails, the call leaves the
\* sink and its pending buffer as they were before the call: no header without
\* a message is delivered, and none stays buffered for a later call's record.
C28_FailedCallLeavesNothing ==
    [][\A t \in Threads :
          (pc[t] = "format" /\ pc'[t] = "idle")
              => /\ pending' = WithoutCall(pending, op[t].c)
                 /\ delivered' = delivered]_vars

\* C29: the End record emitted when a log_function_guard is released names the
\* same function, file and line as its Start record: the source location bound
\* at acquisition, the one of the default argument included, is still a live
\* object when the guard is released.
C29_EndNamesTheStartLocation ==
    [][\A t \in Threads :
          (guard[t].held /\ ~guard'[t].held)
              => /\ fault' = "none"
                 /\ op'[t].kind = "End"
                 /\ op'[t].fn = guard[t].source_location.function_name
                 /\ ~failbit => /\ pending' # <<>>
                                /\ pending'[Len(pending')] =
                                      HeaderText(ncalls', guard[t].log_level,
                                                 guard[t].source_location, prefix)]_vars

\* C30: if swap_to(path) fails because the parent directory of path is missing
\* and cannot be created, the logger is left as it was before the call: a
\* backing file that was open is still open, and log calls still reach the
\* previous destination.
C30_FailedSwapLeavesLoggerAsItWas ==
    [][\A t \in Threads, i \in Instances, logpath \in Paths :
          (open(logpath, dirs).throws /\ swap_to_path(t, i, logpath))
              => /\ fstream' = fstream
                 /\ Resolve(wrapped', fstream') = Resolve(wrapped, fstream)]_vars


(***************************************************************************)
(*                     Properties: termination of scan                     *)
(***************************************************************************)
\* the format errors scan() raises
FormatErrors == {UnmatchedRight, UnmatchedLeft, UnknownNs, UnknownMember, MissingSemi}

\* the cursor at the start of the pass that consumed the last placeholder: the
\* start of the literal run reported before it
PassStart == hooks[Len(hooks) - 1].from

\* C31: for every finite template scan() terminates, by completing or by
\* raising a format error: a scan that stops without completing stops on a
\* format error, each pass of the loop moves the cursor strictly forward and
\* never past the end, and find_next_valid_bracket returns a position in
\* [start, end] for every start <= end.
C31_ScanTerminates ==
    [][/\ scanPc' = "error" => err' \in FormatErrors
       /\ (scanPc = "next" /\ scanPc' = "scan") => (PassStart < begin_' /\ begin_' <= end_)
       /\ scanPc = "scan" =>
             /\ Lb \in begin_..end_
             /\ Lb # end_ => Rb \in Lb1..end_]_vars


(***************************************************************************)
(*                      Properties: surplus pops                           *)
(***************************************************************************)
\* C32: pop_prefix() called when the shared prefix is empty changes nothing: the
\* prefix stays empty and no other logger state (sink, backing file, enabled
\* flag) is modified, for any number of surplus pops: from no state with an
\* empty prefix does a pop_prefix step lead to a different state.
C32_SurplusPopChangesNothing ==
    prefix = <<>> => \A t \in Threads : ~ENABLED (pop_prefix(t) /\ vars' # vars)

\* a surplus pop can be made with the sink on a backing file and disabled
C32_Witness ==
    /\ prefix = <<>>
    /\ fstream[1] # "closed" /\ wrapped = FileBuf(1) /\ failbit
    /\ ENABLED pop_prefix(1)


(***************************************************************************)
(*                        Properties: insertion                            *)
(***************************************************************************)
\* S with the sequence I put in front of position p
InsertedAt(S, p, I) == SubSeq(S, 1, p) \o I \o SubSeq(S, p + 1, Len(S))

\* C33: for every type sequence S, every position p in [0, length(S)] and every
\* inserted sequence I, insert_range_t<p, I, S> is the prefix [0, p) of S, then
\* I, then the suffix [p, end) of S; insert_t inserts the one-element sequence,
\* insert_count_t inserts N copies of one type (N = 0 leaves S unchanged),
\* push_front_t and prepend_range_t insert at 0, push_back_t and
\* append_range_t at length(S).
C33_InsertIsPrefixInsertedSuffix ==
    /\ (seqOp \in {"insert", "insert one"} /\ seqPos <= Len(seqIn))
          => ~seqErr /\ seqOut = InsertedAt(seqIn, seqPos, seqArg)
    /\ seqOp \in {"insert one", "push_front", "push_back"} => Len(seqArg) = 1
    /\ (seqOp = "insert_count" /\ seqPos <= Len(seqIn))
          => /\ ~seqErr
             /\ seqOut = InsertedAt(seqIn, seqPos, [n \in 1..seqCount |-> seqArg[1]])
             /\ seqCount = 0 => seqOut = seqIn
    /\ seqOp \in {"push_front", "prepend_range"}
          => ~seqErr /\ seqOut = seqArg \o seqIn
    /\ seqOp \in {"push_back", "append_range"}
          => ~seqErr /\ seqOut = seqIn \o seqArg

C33_Witness ==
    /\ seqOp = "insert_count"
    /\ seqIn = <<"short", "bool", "int">>
    /\ seqPos = 1 /\ seqArg = <<"int">> /\ seqCount = 2
    /\ seqOut = <<"short", "int", "int", "bool", "int">>

=============================================================================
